---- MODULE Spec2Model ----
(***************************************************************************)
(* Veko Dome: session start-up, proxy rotation thread, Ctrl-C handling and *)
(* Tor process supervision, modelled from src/src/main.rs and              *)
(* src/src/tor_integration.rs.                                             *)
(***************************************************************************)
EXTENDS Integers, Sequences, FiniteSets, TLC

(* ---------------------------- bounds ---------------------------------- *)
\* longest proxy file (in lines) the model reads
MaxLines == 2
\* largest --rotate value (seconds)
MaxRotateSecs == 1
\* the clock stops after this many seconds
MaxSecs == 3

(* ------------------------ text and proxy file ------------------------- *)
Whitespace == {" ", "\n"}

RECURSIVE trim_start(_)
trim_start(s) ==
    IF s = <<>> THEN <<>>
    ELSE IF Head(s) \in Whitespace THEN trim_start(Tail(s))
    ELSE s

RECURSIVE trim_end(_)
trim_end(s) ==
    IF s = <<>> THEN <<>>
    ELSE IF s[Len(s)] \in Whitespace THEN trim_end(SubSeq(s, 1, Len(s) - 1))
    ELSE s

\* str::trim
trim(s) == trim_end(trim_start(s))

\* the lines a proxy file may hold (a line is a sequence of characters)
FileLines == { <<" ">>, <<" ", "a">>, <<"b", " ">> }

RECURSIVE SeqsUpTo(_, _)
SeqsUpTo(S, n) ==
    IF n = 0 THEN { <<>> }
    ELSE LET shorter == SeqsUpTo(S, n - 1)
         IN  shorter \cup { Append(q, x) : q \in { r \in shorter : Len(r) = n - 1 }, x \in S }

Files == SeqsUpTo(FileLines, MaxLines)

NonEmptyLine(s) == s # <<>>

\* load_proxies on a readable file: trim every line, drop the empty ones
load_proxies(lines) ==
    SelectSeq([i \in 1..Len(lines) |-> trim(lines[i])], NonEmptyLine)

\* --proxy: absent, a path that cannot be read, or a readable file
ProxyArgs == { "none", "unreadable", "file" }

(* ------------------------------ time ---------------------------------- *)
\* resolution of Instant and Duration: clock units per second
UnitsPerSec == 2

MaxTime == MaxSecs * UnitsPerSec
Time == 0..MaxTime

(* --------------------------- ProxyRotator ----------------------------- *)
\* Duration::from_secs
from_secs(secs) == secs * UnitsPerSec

\* Instant::duration_since (saturating)
duration_since(later, earlier) == IF later >= earlier THEN later - earlier ELSE 0

NoRotator == [some |-> FALSE, proxies |-> <<>>, current_index |-> 0,
              last_rotation |-> 0, interval |-> 0]

ProxyRotator_new(proxies, interval_secs, t) ==
    [some |-> TRUE, proxies |-> proxies, current_index |-> 0,
     last_rotation |-> t, interval |-> from_secs(interval_secs)]

\* rotate() stepping by two
rotate_index_by_two(r) ==
    [r EXCEPT !.current_index = (r.current_index + 2) % Len(r.proxies)]

\* rotate() without the wrap-around
rotate_index_no_wrap(r) ==
    [r EXCEPT !.current_index = r.current_index + 1]

\* first statement of rotate()
rotate_index(r) ==
    [r EXCEPT !.current_index = (r.current_index + 1) % Len(r.proxies)]

\* rotate() leaving the timestamp alone
rotate_stamp_keep(r, t) == r

\* rotate() that also clears the interval
rotate_stamp_interval(r, t) == [r EXCEPT !.last_rotation = t, !.interval = 0]

\* second statement of rotate()
rotate_stamp(r, t) == [r EXCEPT !.last_rotation = t]

current(r) == r.proxies[r.current_index + 1]

\* should_rotate with an exclusive boundary
should_rotate_strict(r, t) == duration_since(t, r.last_rotation) > r.interval

should_rotate(r, t) == duration_since(t, r.last_rotation) >= r.interval

(* ----------------------------- state ---------------------------------- *)
VARIABLES
    use_tor,        \* --tor
    proxy_arg,      \* --proxy
    check,          \* --check
    rotate_secs,    \* --rotate
    pc,             \* position of main
    now,            \* the monotonic clock
    proxies,        \* main's local `proxies`
    tor_manager,    \* main's local `tor_manager`: [some, process]
    relay,          \* the tor child process: "absent", "running", "exited"
    rotator,        \* the ProxyRotator behind Arc<Mutex<..>>
    lock,           \* holder of the rotator's Mutex
    client,         \* the reqwest client: [some, has_proxy, proxy]
    running,        \* the AtomicBool `running`
    handler,        \* TRUE once ctrlc::set_handler has returned
    main_wake,      \* end of main's current thread::sleep
    rot_pc,         \* position of the rotation thread
    rot_wake,       \* end of the rotation thread's current thread::sleep
    rd_pc,          \* position of an observer reading the rotator ("off": none)
    rd_idx,         \* index the observer read
    rd_ts,          \* timestamp the observer read
    steps,          \* history: start-up steps completed, in order
    rotations,      \* history: number of rotate() calls
    held,           \* history: (index, timestamp) pairs of the completed states
                    \* of the rotator, recorded while an observer exists
    requests,       \* outbound requests [url, has_proxy, proxy, tor_ready] of
                    \* the display_connection_status call in progress
    ip_info,        \* display_connection_status's result of get_public_ip
    responses,      \* what the IP services answered to that call
    spawn_at,       \* history: clock value when the relay was spawned
    stop_log        \* history: one entry per TorManager::stop call

vars == << use_tor, proxy_arg, check, rotate_secs, pc, now, proxies,
           tor_manager, relay, rotator, lock, client, running, handler,
           main_wake, rot_pc, rot_wake, rd_pc, rd_idx, rd_ts, steps,
           rotations, held, requests, ip_info, responses, spawn_at,
           stop_log >>

inputs == << use_tor, proxy_arg, check, rotate_secs >>
observer == << rd_pc, rd_idx, rd_ts >>

NoClient == [some |-> FALSE, has_proxy |-> FALSE, proxy |-> <<>>]
NoTorManager == [some |-> FALSE, process |-> FALSE]

Pair(r) == << r.current_index, r.last_rotation >>

\* the process is alive: main has neither returned, panicked nor been killed
Ended == pc \in {"done", "panicked", "killed"}
Alive == ~Ended

Init ==
    /\ use_tor \in BOOLEAN
    /\ proxy_arg \in ProxyArgs
    /\ check \in BOOLEAN
    /\ rotate_secs \in 0..MaxRotateSecs
    /\ pc = "load"
    /\ now = 0
    /\ proxies = <<>>
    /\ tor_manager = NoTorManager
    /\ relay = "absent"
    /\ rotator = NoRotator
    /\ lock = "free"
    /\ client = NoClient
    /\ running = TRUE
    /\ handler = FALSE
    /\ main_wake = 0
    /\ rot_pc = "none"
    /\ rot_wake = 0
    /\ rd_pc = "off"
    /\ rd_idx = 0
    /\ rd_ts = 0
    /\ steps = <<>>
    /\ rotations = 0
    /\ held = {}
    /\ requests = <<>>
    /\ ip_info = [some |-> FALSE, ip |-> <<>>]
    /\ responses = <<>>
    /\ spawn_at = 0
    /\ stop_log = <<>>

(* ----------------------------- clock ---------------------------------- *)
Tick ==
    /\ Alive
    /\ now < MaxTime
    /\ now' = now + 1
    /\ UNCHANGED << inputs, pc, proxies, tor_manager, relay, rotator, lock,
                    client, running, handler, main_wake, rot_pc, rot_wake,
                    observer, steps, rotations, held, requests, ip_info, responses,
                    spawn_at, stop_log >>

(* ---------------------------- TorManager ------------------------------ *)
\* warm-up sleep of TorManager::start, in seconds
WarmupSecs == 2
\* sleep of the wait loop and of the rotation loop, in seconds
TickSecs == 1

\* stop() that reads the child handle without taking it
stop_no_take(tm, rl, kill_ok) ==
    IF tm.process
    THEN [tor_manager |-> tm,
          relay |-> IF kill_ok THEN "exited" ELSE rl,
          entry |-> [tracked |-> TRUE, kill |-> TRUE, err |-> ~kill_ok]]
    ELSE [tor_manager |-> tm,
          relay |-> rl,
          entry |-> [tracked |-> FALSE, kill |-> FALSE, err |-> FALSE]]

\* TorManager::stop on manager tm while the child is in state rl; kill_ok is
\* the outcome of child.kill(). Gives the manager and the child afterwards
\* and what the call did.
stop(tm, rl, kill_ok) ==
    IF tm.process
    THEN [tor_manager |-> [tm EXCEPT !.process = FALSE],
          relay |-> IF kill_ok THEN "exited" ELSE rl,
          entry |-> [tracked |-> TRUE, kill |-> TRUE, err |-> ~kill_ok]]
    ELSE [tor_manager |-> tm,
          relay |-> rl,
          entry |-> [tracked |-> FALSE, kill |-> FALSE, err |-> FALSE]]

(* ------------------------------ mutex --------------------------------- *)
\* a lock that excludes nobody
can_lock_always(holder) == TRUE

\* Mutex::lock succeeds only while nobody holds the mutex
can_lock(holder) == holder = "free"

(* ------------------------------ main ---------------------------------- *)
\* main.rs 316-318: load the proxy file, whose content is `lines`; an
\* unreadable file panics
MainLoadProxies ==
    /\ pc = "load"
    /\ IF proxy_arg = "unreadable"
       THEN /\ pc' = "unwind"
            /\ UNCHANGED << proxies, steps >>
       ELSE /\ \E lines \in Files :
                 proxies' = IF proxy_arg = "file" THEN load_proxies(lines) ELSE <<>>
            /\ steps' = Append(steps, "load")
            /\ pc' = "tor"
    /\ UNCHANGED << inputs, now, tor_manager, relay, rotator, lock, client,
                    running, handler, main_wake, rot_pc, rot_wake, observer,
                    rotations, held, requests, ip_info, responses, spawn_at, stop_log >>

\* start() going on after a failed spawn
TorStartSpawn_IgnoreFailure ==
    /\ pc = "tor"
    /\ IF use_tor
       THEN \E spawn_ok \in BOOLEAN :
              IF spawn_ok
              THEN /\ relay' = "running"
                   /\ spawn_at' = now
                   /\ main_wake' = now + from_secs(WarmupSecs)
                   /\ pc' = "tor_warmup"
              ELSE /\ pc' = "rotator"
                   /\ UNCHANGED << relay, spawn_at, main_wake >>
       ELSE /\ pc' = "rotator"
            /\ UNCHANGED << relay, spawn_at, main_wake >>
    /\ UNCHANGED << inputs, now, proxies, tor_manager, rotator, lock, client,
                    running, handler, rot_pc, rot_wake, observer, steps,
                    rotations, held, requests, ip_info, responses, stop_log >>

\* main.rs 321-325 with tor_integration.rs 15-21: spawn tor, start the warm-up sleep
TorStartSpawn ==
    /\ pc = "tor"
    /\ IF use_tor
       THEN \E spawn_ok \in BOOLEAN :
              IF spawn_ok
              THEN /\ relay' = "running"
                   /\ spawn_at' = now
                   /\ main_wake' = now + from_secs(WarmupSecs)
                   /\ pc' = "tor_warmup"
              ELSE /\ pc' = "unwind"
                   /\ UNCHANGED << relay, spawn_at, main_wake >>
       ELSE /\ pc' = "rotator"
            /\ UNCHANGED << relay, spawn_at, main_wake >>
    /\ UNCHANGED << inputs, now, proxies, tor_manager, rotator, lock, client,
                    running, handler, rot_pc, rot_wake, observer, steps,
                    rotations, held, requests, ip_info, responses, stop_log >>

\* start() returning without waiting for the warm-up sleep
TorStartReturn_NoWarmup ==
    /\ pc = "tor_warmup"
    /\ main_wake' = 0
    /\ tor_manager' = [some |-> TRUE, process |-> TRUE]
    /\ steps' = Append(steps, "tor")
    /\ pc' = "rotator"
    /\ UNCHANGED << inputs, now, proxies, relay, rotator, lock, client,
                    running, handler, rot_pc, rot_wake, observer,
                    rotations, held, requests, ip_info, responses, spawn_at, stop_log >>

\* tor_integration.rs 21-24: the warm-up sleep is over, start() returns
TorStartReturn ==
    /\ pc = "tor_warmup"
    /\ now >= main_wake
    /\ main_wake' = 0
    /\ tor_manager' = [some |-> TRUE, process |-> TRUE]
    /\ steps' = Append(steps, "tor")
    /\ pc' = "rotator"
    /\ UNCHANGED << inputs, now, proxies, relay, rotator, lock, client,
                    running, handler, rot_pc, rot_wake, observer,
                    rotations, held, requests, ip_info, responses, spawn_at, stop_log >>

\* the rotator built whatever the pool holds
MainNewRotator_Always ==
    /\ pc = "rotator"
    /\ IF TRUE
       THEN /\ rotator' = ProxyRotator_new(proxies, rotate_secs, now)
            /\ steps' = Append(steps, "rotator")
       ELSE UNCHANGED << rotator, steps >>
    /\ pc' = "client"
    /\ UNCHANGED << inputs, now, proxies, tor_manager, relay, lock, client,
                    running, handler, main_wake, rot_pc, rot_wake, observer,
                    rotations, held, requests, ip_info, responses, spawn_at, stop_log >>

\* main.rs 327-334
MainNewRotator ==
    /\ pc = "rotator"
    /\ IF proxies # <<>>
       THEN /\ rotator' = ProxyRotator_new(proxies, rotate_secs, now)
            /\ steps' = Append(steps, "rotator")
       ELSE UNCHANGED << rotator, steps >>
    /\ pc' = "client"
    /\ UNCHANGED << inputs, now, proxies, tor_manager, relay, lock, client,
                    running, handler, main_wake, rot_pc, rot_wake, observer,
                    rotations, held, requests, ip_info, responses, spawn_at, stop_log >>

\* main.rs 336-342 with create_http_client 212-239; the unwraps may panic
MainCreateClient ==
    /\ pc = "client"
    /\ lock = "free"
    /\ \E build_ok \in BOOLEAN :
         IF build_ok
         THEN /\ client' = [some |-> TRUE, has_proxy |-> rotator.some,
                            proxy |-> IF rotator.some THEN current(rotator) ELSE <<>>]
              /\ steps' = Append(steps, "client")
              /\ pc' = "check"
         ELSE /\ pc' = "unwind"
              /\ UNCHANGED << client, steps >>
    /\ UNCHANGED << inputs, now, proxies, tor_manager, relay, rotator, lock,
                    running, handler, main_wake, rot_pc, rot_wake, observer,
                    rotations, held, requests, ip_info, responses, spawn_at, stop_log >>

\* get_public_ip: the services are tried from `i` on; resp[i] is what
\* service i answers. Gives the number of services queried and the result.
Services == 1..3
TorCheckUrl == 4
Responses ==
    { [send_ok |-> FALSE, text_ok |-> FALSE, body |-> <<>>],
      [send_ok |-> TRUE,  text_ok |-> FALSE, body |-> <<>>],
      [send_ok |-> TRUE,  text_ok |-> TRUE,  body |-> <<" ", "7", "\n">>] }

\* get_public_ip returning the body as received
RECURSIVE get_public_ip_from_no_trim(_, _)
get_public_ip_from_no_trim(resp, i) ==
    IF i > 3 THEN [queried |-> 3, some |-> FALSE, ip |-> <<>>]
    ELSE IF resp[i].send_ok /\ resp[i].text_ok
         THEN [queried |-> i, some |-> TRUE, ip |-> resp[i].body]
         ELSE get_public_ip_from_no_trim(resp, i + 1)

RECURSIVE get_public_ip_from(_, _)
get_public_ip_from(resp, i) ==
    IF i > 3 THEN [queried |-> 3, some |-> FALSE, ip |-> <<>>]
    ELSE IF resp[i].send_ok /\ resp[i].text_ok
         THEN [queried |-> i, some |-> TRUE, ip |-> trim(resp[i].body)]
         ELSE get_public_ip_from(resp, i + 1)

get_public_ip(resp) == get_public_ip_from(resp, 1)

\* the relay is up: start() has returned, so the warm-up delay has elapsed
tor_ready == /\ tor_manager.some
             /\ relay = "running"
             /\ now >= spawn_at + from_secs(WarmupSecs)

Request(url) == [url |-> url, has_proxy |-> client.has_proxy,
                 proxy |-> client.proxy, tor_ready |-> tor_ready]

\* main.rs 344-346 with display_connection_status 388-400: the requests of
\* get_public_ip and check_tor_connection
MainCheck ==
    /\ pc = "check"
    /\ IF check
       THEN /\ \E resp \in [Services -> Responses] :
                 LET got == get_public_ip(resp)
                     ip_reqs == [i \in 1..got.queried |-> Request(i)]
                 IN  /\ ip_info' = [some |-> got.some, ip |-> got.ip]
                     /\ responses' = resp
                     /\ requests' = ip_reqs \o
                                    (IF use_tor THEN << Request(TorCheckUrl) >> ELSE <<>>)
            /\ pc' = "status"
       ELSE /\ pc' = "handler"
            /\ UNCHANGED << ip_info, responses, requests >>
    /\ UNCHANGED << inputs, now, proxies, tor_manager, relay, rotator, lock,
                    client, running, handler, main_wake, rot_pc, rot_wake,
                    observer, steps, rotations, held, spawn_at, stop_log >>

\* display_connection_status 402-414: read the rotator under its lock,
\* print the status, return
MainStatus ==
    /\ pc = "status"
    /\ can_lock(lock)
    /\ ip_info' = [some |-> FALSE, ip |-> <<>>]
    /\ responses' = <<>>
    /\ requests' = <<>>
    /\ steps' = Append(steps, "check")
    /\ pc' = "handler"
    /\ UNCHANGED << inputs, now, proxies, tor_manager, relay, rotator, lock,
                    client, running, handler, main_wake, rot_pc, rot_wake,
                    observer, rotations, held, spawn_at, stop_log >>

\* main.rs 352-357: create `running`, register the Ctrl-C handler
MainSetHandler ==
    /\ pc = "handler"
    /\ \E set_ok \in BOOLEAN :
         IF set_ok
         THEN /\ handler' = TRUE
              /\ steps' = Append(steps, "handler")
              /\ pc' = "spawn"
         ELSE /\ pc' = "unwind"
              /\ UNCHANGED << handler, steps >>
    /\ UNCHANGED << inputs, now, proxies, tor_manager, relay, rotator, lock,
                    client, running, main_wake, rot_pc, rot_wake, observer,
                    rotations, held, requests, ip_info, responses, spawn_at, stop_log >>

\* main going on to the wait loop without starting the rotation thread
MainSpawnRotation_Skip ==
    /\ pc = "spawn"
    /\ pc' = "wait"
    /\ UNCHANGED << inputs, now, proxies, tor_manager, relay, rotator, lock,
                    client, running, handler, main_wake, rot_pc, rot_wake,
                    observer, steps, rotations, held, requests, ip_info, responses,
                    spawn_at, stop_log >>

\* main.rs 359-361 with start_rotation_thread 416-420
MainSpawnRotation ==
    /\ pc = "spawn"
    /\ IF rotator.some
       THEN /\ rot_pc' = "loop"
            /\ steps' = Append(steps, "spawn")
       ELSE UNCHANGED << rot_pc, steps >>
    /\ pc' = "wait"
    /\ UNCHANGED << inputs, now, proxies, tor_manager, relay, rotator, lock,
                    client, running, handler, main_wake, rot_wake, observer,
                    rotations, held, requests, ip_info, responses, spawn_at, stop_log >>

\* main.rs 364-365: test `running`, sleep one tick while it is set
MainWait ==
    /\ pc = "wait"
    /\ IF running
       THEN /\ pc' = "wait_sleep"
            /\ main_wake' = now + from_secs(TickSecs)
       ELSE /\ pc' = "stop"
            /\ UNCHANGED main_wake
    /\ UNCHANGED << inputs, now, proxies, tor_manager, relay, rotator, lock,
                    client, running, handler, rot_pc, rot_wake, observer,
                    steps, rotations, held, requests, ip_info, responses, spawn_at,
                    stop_log >>

\* main.rs 365: the sleep is over
MainWake ==
    /\ pc = "wait_sleep"
    /\ now >= main_wake
    /\ main_wake' = 0
    /\ pc' = "wait"
    /\ UNCHANGED << inputs, now, proxies, tor_manager, relay, rotator, lock,
                    client, running, handler, rot_pc, rot_wake,
                    observer, steps, rotations, held, requests, ip_info, responses,
                    spawn_at, stop_log >>

\* main.rs 368-369: tm.stop(); a failed kill panics
MainStop ==
    /\ pc = "stop"
    /\ IF tor_manager.some
       THEN \E kill_ok \in BOOLEAN :
              LET r == stop(tor_manager, relay, kill_ok)
              IN  /\ tor_manager' = r.tor_manager
                  /\ relay' = r.relay
                  /\ stop_log' = Append(stop_log, r.entry)
                  /\ pc' = IF r.entry.err THEN "unwind" ELSE "drop_tm"
       ELSE /\ pc' = "log"
            /\ UNCHANGED << tor_manager, relay, stop_log >>
    /\ UNCHANGED << inputs, now, proxies, rotator, lock, client, running,
                    handler, main_wake, rot_pc, rot_wake, observer, steps,
                    rotations, held, requests, ip_info, responses, spawn_at >>

\* main.rs 370 with tor_integration.rs 36-40: `tm` goes out of scope
MainDropTm ==
    /\ pc = "drop_tm"
    /\ \E kill_ok \in BOOLEAN :
         LET r == stop(tor_manager, relay, kill_ok)
         IN  /\ tor_manager' = NoTorManager
             /\ relay' = r.relay
             /\ stop_log' = Append(stop_log, r.entry)
             /\ pc' = IF r.entry.err THEN "panicked" ELSE "log"
    /\ UNCHANGED << inputs, now, proxies, rotator, lock, client, running,
                    handler, main_wake, rot_pc, rot_wake, observer, steps,
                    rotations, held, requests, ip_info, responses, spawn_at >>

\* main.rs 371-372: last log line, main returns and the process exits
MainReturn ==
    /\ pc = "log"
    /\ pc' = "done"
    /\ UNCHANGED << inputs, now, proxies, tor_manager, relay, rotator, lock,
                    client, running, handler, main_wake, rot_pc, rot_wake,
                    observer, steps, rotations, held, requests, ip_info, responses,
                    spawn_at, stop_log >>

\* a panic in main unwinds: tor_manager, when it holds a TorManager, is dropped
MainUnwind ==
    /\ pc = "unwind"
    /\ IF tor_manager.some
       THEN \E kill_ok \in BOOLEAN :
              LET r == stop(tor_manager, relay, kill_ok)
              IN  /\ tor_manager' = NoTorManager
                  /\ relay' = r.relay
                  /\ stop_log' = Append(stop_log, r.entry)
       ELSE UNCHANGED << tor_manager, relay, stop_log >>
    /\ pc' = "panicked"
    /\ UNCHANGED << inputs, now, proxies, rotator, lock, client, running,
                    handler, main_wake, rot_pc, rot_wake, observer, steps,
                    rotations, held, requests, ip_info, responses, spawn_at >>

\* a handler that flips `running`
Interrupt_Toggle ==
    /\ Alive
    /\ IF handler
       THEN /\ running' = ~running
            /\ pc' = pc
       ELSE /\ pc' = "killed"
            /\ running' = running
    /\ UNCHANGED << inputs, now, proxies, tor_manager, relay, rotator, lock,
                    client, handler, main_wake, rot_pc, rot_wake, observer,
                    steps, rotations, held, requests, ip_info, responses, spawn_at,
                    stop_log >>

\* SIGINT: the registered handler clears `running` (main.rs 354-356); with
\* no handler registered the default disposition ends the process at once
Interrupt ==
    /\ Alive
    /\ IF handler
       THEN /\ running' = FALSE
            /\ pc' = pc
       ELSE /\ pc' = "killed"
            /\ running' = running
    /\ UNCHANGED << inputs, now, proxies, tor_manager, relay, rotator, lock,
                    client, handler, main_wake, rot_pc, rot_wake, observer,
                    steps, rotations, held, requests, ip_info, responses, spawn_at,
                    stop_log >>

(* ------------------------- rotation thread ---------------------------- *)
\* main.rs 421: test `running`
RotLoop ==
    /\ Alive
    /\ rot_pc = "loop"
    /\ rot_pc' = IF running THEN "lock" ELSE "exited"
    /\ UNCHANGED << inputs, pc, now, proxies, tor_manager, relay, rotator,
                    lock, client, running, handler, main_wake, rot_wake,
                    observer, steps, rotations, held, requests, ip_info, responses,
                    spawn_at, stop_log >>

\* main.rs 423: proxy_rotator.lock()
RotLock ==
    /\ Alive
    /\ rot_pc = "lock"
    /\ can_lock(lock)
    /\ lock' = "rot"
    /\ rot_pc' = "check"
    /\ UNCHANGED << inputs, pc, now, proxies, tor_manager, relay, rotator,
                    client, running, handler, main_wake, rot_wake, observer,
                    steps, rotations, held, requests, ip_info, responses, spawn_at,
                    stop_log >>

\* the thread rotating without asking should_rotate()
RotCheck_Always ==
    /\ Alive
    /\ rot_pc = "check"
    /\ rot_pc' = "rotate"
    /\ UNCHANGED << inputs, pc, now, proxies, tor_manager, relay, rotator,
                    lock, client, running, handler, main_wake, rot_wake,
                    observer, steps, rotations, held, requests, ip_info, responses,
                    spawn_at, stop_log >>

\* main.rs 424: rotator.should_rotate()
RotCheck ==
    /\ Alive
    /\ rot_pc = "check"
    /\ rot_pc' = IF should_rotate(rotator, now) THEN "rotate" ELSE "unlock"
    /\ UNCHANGED << inputs, pc, now, proxies, tor_manager, relay, rotator,
                    lock, client, running, handler, main_wake, rot_wake,
                    observer, steps, rotations, held, requests, ip_info, responses,
                    spawn_at, stop_log >>

\* main.rs 425 with rotate() line 99
RotIndex ==
    /\ Alive
    /\ rot_pc = "rotate"
    /\ rotator' = rotate_index(rotator)
    /\ rotations' = rotations + 1
    /\ rot_pc' = "stamp"
    /\ UNCHANGED << inputs, pc, now, proxies, tor_manager, relay, lock,
                    client, running, handler, main_wake, rot_wake, observer,
                    steps, held, requests, ip_info, responses, spawn_at, stop_log >>

\* rotate() lines 100-101
RotStamp ==
    /\ Alive
    /\ rot_pc = "stamp"
    /\ rotator' = rotate_stamp(rotator, now)
    /\ held' = IF rd_pc = "off" THEN held ELSE held \cup { Pair(rotator') }
    /\ rot_pc' = "unlock"
    /\ UNCHANGED << inputs, pc, now, proxies, tor_manager, relay, lock,
                    client, running, handler, main_wake, rot_wake, observer,
                    steps, rotations, requests, ip_info, responses, spawn_at, stop_log >>

\* the guard living until after the sleep
RotUnlock_KeepLock ==
    /\ Alive
    /\ rot_pc = "unlock"
    /\ lock' = lock
    /\ rot_wake' = now + from_secs(TickSecs)
    /\ rot_pc' = "sleep"
    /\ UNCHANGED << inputs, pc, now, proxies, tor_manager, relay, rotator,
                    client, running, handler, main_wake, observer, steps,
                    rotations, held, requests, ip_info, responses, spawn_at, stop_log >>

\* main.rs 427-428: the guard is dropped, then the thread sleeps one tick
RotUnlock ==
    /\ Alive
    /\ rot_pc = "unlock"
    /\ lock' = "free"
    /\ rot_wake' = now + from_secs(TickSecs)
    /\ rot_pc' = "sleep"
    /\ UNCHANGED << inputs, pc, now, proxies, tor_manager, relay, rotator,
                    client, running, handler, main_wake, observer, steps,
                    rotations, held, requests, ip_info, responses, spawn_at, stop_log >>

\* main.rs 428: the sleep is over
RotWake ==
    /\ Alive
    /\ rot_pc = "sleep"
    /\ now >= rot_wake
    /\ rot_wake' = 0
    /\ rot_pc' = "loop"
    /\ UNCHANGED << inputs, pc, now, proxies, tor_manager, relay, rotator,
                    lock, client, running, handler, main_wake,
                    observer, steps, rotations, held, requests, ip_info, responses,
                    spawn_at, stop_log >>

RotationThread ==
    RotLoop \/ RotLock \/ RotCheck \/ RotIndex \/ RotStamp \/ RotUnlock \/ RotWake

(* ------------------------------ session ------------------------------- *)
Main ==
    \/ MainLoadProxies \/ TorStartSpawn \/ TorStartReturn \/ MainNewRotator
    \/ MainCreateClient \/ MainCheck \/ MainStatus \/ MainSetHandler
    \/ MainSpawnRotation
    \/ MainWait \/ MainWake \/ MainStop \/ MainDropTm \/ MainReturn
    \/ MainUnwind

Next == Main \/ RotationThread \/ Interrupt \/ Tick

Spec == Init /\ [][Next]_vars

(* ------------- the rotator shared with a second context --------------- *)
\* A context that holds a clone of the Arc<Mutex<ProxyRotator>> and reads
\* the rotator the way display_connection_status does (main.rs 402-404):
\* lock, read the fields, drop the guard.
ReaderLock ==
    /\ rd_pc \in {"idle", "seen"}
    /\ can_lock(lock)
    /\ lock' = "reader"
    /\ rd_pc' = "index"
    /\ UNCHANGED << inputs, pc, now, proxies, tor_manager, relay, rotator,
                    client, running, handler, main_wake, rot_pc, rot_wake,
                    rd_idx, rd_ts, steps, rotations, held, requests, ip_info, responses,
                    spawn_at, stop_log >>

ReaderIndex ==
    /\ rd_pc = "index"
    /\ rd_idx' = rotator.current_index
    /\ rd_pc' = "stamp"
    /\ UNCHANGED << inputs, pc, now, proxies, tor_manager, relay, rotator,
                    lock, client, running, handler, main_wake, rot_pc,
                    rot_wake, rd_ts, steps, rotations, held, requests,
                    ip_info, responses, spawn_at, stop_log >>

ReaderStamp ==
    /\ rd_pc = "stamp"
    /\ rd_ts' = rotator.last_rotation
    /\ rd_pc' = "unlock"
    /\ UNCHANGED << inputs, pc, now, proxies, tor_manager, relay, rotator,
                    lock, client, running, handler, main_wake, rot_pc,
                    rot_wake, rd_idx, steps, rotations, held, requests,
                    ip_info, responses, spawn_at, stop_log >>

ReaderUnlock ==
    /\ rd_pc = "unlock"
    /\ lock' = "free"
    /\ rd_pc' = "seen"
    /\ UNCHANGED << inputs, pc, now, proxies, tor_manager, relay, rotator,
                    client, running, handler, main_wake, rot_pc, rot_wake,
                    rd_idx, rd_ts, steps, rotations, held, requests, ip_info, responses,
                    spawn_at, stop_log >>

Reader == ReaderLock \/ ReaderIndex \/ ReaderStamp \/ ReaderUnlock

\* the session right after start_rotation_thread returned (no tor, no
\* check), for every non-empty pool and every interval
InitShared ==
    /\ use_tor = FALSE
    /\ proxy_arg = "file"
    /\ check = FALSE
    /\ rotate_secs \in 0..MaxRotateSecs
    /\ pc = "wait"
    /\ now = 0
    /\ proxies \in { load_proxies(lines) : lines \in Files } \ { <<>> }
    /\ tor_manager = NoTorManager
    /\ relay = "absent"
    /\ rotator = ProxyRotator_new(proxies, rotate_secs, now)
    /\ lock = "free"
    /\ client = [some |-> TRUE, has_proxy |-> TRUE, proxy |-> current(rotator)]
    /\ running = TRUE
    /\ handler = TRUE
    /\ main_wake = 0
    /\ rot_pc = "loop"
    /\ rot_wake = 0
    /\ rd_pc = "idle"
    /\ rd_idx = 0
    /\ rd_ts = 0
    /\ steps = << "load", "rotator", "client", "handler", "spawn" >>
    /\ rotations = 0
    /\ held = { Pair(rotator) }
    /\ requests = <<>>
    /\ ip_info = [some |-> FALSE, ip |-> <<>>]
    /\ responses = <<>>
    /\ spawn_at = 0
    /\ stop_log = <<>>

NextShared == RotationThread \/ Reader \/ Interrupt \/ Tick

SpecShared == InitShared /\ [][NextShared]_vars

(* ------------------------------ types --------------------------------- *)
TypeOK ==
    /\ pc \in {"load", "tor", "tor_warmup", "rotator", "client", "check",
               "status", "handler", "spawn", "wait", "wait_sleep", "stop", "drop_tm",
               "log", "done", "unwind", "panicked", "killed"}
    /\ rot_pc \in {"none", "loop", "lock", "check", "rotate", "stamp",
                   "unlock", "sleep", "exited"}
    /\ rd_pc \in {"off", "idle", "index", "stamp", "unlock", "seen"}
    /\ lock \in {"free", "rot", "reader"}
    /\ relay \in {"absent", "running", "exited"}
    /\ now \in Time
    /\ running \in BOOLEAN
    /\ handler \in BOOLEAN

(* ======================= properties of the code ====================== *)
Range(q) == { q[i] : i \in 1..Len(q) }
Rank(order, x) == CHOOSE i \in 1..Len(order) : order[i] = x
InOrder(q, order) ==
    \A i, j \in 1..Len(q) : i < j => Rank(order, q[i]) < Rank(order, q[j])

\* C1: a rotator built by new() and advanced K times by rotate() has
\* current_index = K mod N, and current() is the pool element at that index,
\* the pool being the loaded proxy list in file order.
C1_RotationIndex ==
    rotator.some =>
        /\ rotator.proxies = proxies
        /\ rotator.current_index = rotations % Len(rotator.proxies)
        /\ current(rotator) = proxies[(rotations % Len(proxies)) + 1]

\* K = 3 rotations of a two-element pool: the index has wrapped once
C1_Witness ==
    /\ rotator.some
    /\ Len(rotator.proxies) = 2
    /\ rotations = 3
    /\ rotator.current_index = 1
    /\ rot_pc = "sleep"

C3_NoRotateAfterStop ==
    [][ Len(stop_log) > 0 => rotations' = rotations ]_vars

\* C4: when the session has ended after TorManager::start() returned, the
\* relay process is not running.
C4_NoOrphanRelay ==
    (Ended /\ "tor" \in Range(steps)) => relay # "running"

\* C5: every (index, timestamp) pair an observer reads under the lock is the
\* pair of the initial state or of a completed rotate().
C5_ReadConsistency ==
    rd_pc \in {"unlock", "seen"} => << rd_idx, rd_ts >> \in held

\* an observer has read the state left by a rotation that happened after
\* time 0, while the rotation thread is inside its next critical section
C5_Witness ==
    /\ rd_pc = "seen"
    /\ rd_idx = 1
    /\ rd_ts > 0
    /\ rot_pc \in {"check", "rotate", "stamp"}

\* C6: whenever a rotator exists its pool is non-empty and current_index
\* is a valid index into it.
C6_IndexInRange ==
    rotator.some =>
        /\ Len(rotator.proxies) >= 1
        /\ 0 <= rotator.current_index
        /\ rotator.current_index < Len(rotator.proxies)

\* the index sits on the last element of a two-element pool after a rotation
C6_Witness ==
    /\ rotator.some
    /\ Len(rotator.proxies) = 2
    /\ rotations = 1
    /\ rotator.current_index = 1

\* C7: should_rotate is false while now - last_rotation < interval and true
\* from now - last_rotation = interval on.
C7_ShouldRotateBoundary ==
    rotator.some =>
        \A t \in Time :
            t >= rotator.last_rotation =>
                /\ (t - rotator.last_rotation < rotator.interval
                        => ~should_rotate(rotator, t))
                /\ (t - rotator.last_rotation >= rotator.interval
                        => should_rotate(rotator, t))

\* the rotation thread found should_rotate() true exactly at the boundary
C7_Witness ==
    /\ rot_pc = "rotate"
    /\ rotator.interval > 0
    /\ now - rotator.last_rotation = rotator.interval

\* C8 as stated: relay start, pool load, rotator, client, identity check,
\* handler registration, rotation thread spawn happen in this order.
SpecOrder == << "tor", "load", "rotator", "client", "check", "handler", "spawn" >>

CodeOrder == << "load", "tor", "rotator", "client", "check", "handler", "spawn" >>

Required(step) ==
    CASE step = "tor" -> use_tor
      [] step = "rotator" -> proxies # <<>>
      [] step = "check" -> check
      [] step = "spawn" -> proxies # <<>>
      [] OTHER -> TRUE

IsPrefix(q, r) == Len(q) <= Len(r) /\ SubSeq(r, 1, Len(q)) = q

C9_NoRequestBeforeRelay ==
    use_tor => \A i \in 1..Len(requests) : requests[i].tor_ready

\* the identity check has issued its requests in a session with a relay
C9_Witness ==
    /\ use_tor
    /\ Len(requests) >= 2
    /\ pc = "status"

\* C10: after stop() no process is tracked; a kill is sent by at most one
\* call; every call after the first, and every call on a manager tracking no
\* process, sends no kill and raises no error.
C10_StopIdempotent ==
    /\ Len(stop_log) > 0 => ~tor_manager.process
    /\ Cardinality({ i \in 1..Len(stop_log) : stop_log[i].kill }) <= 1
    /\ \A i \in 1..Len(stop_log) :
          (i > 1 \/ ~stop_log[i].tracked) => (~stop_log[i].kill /\ ~stop_log[i].err)

\* stop() ran twice: explicitly with a successful kill, then through Drop
C10_Witness ==
    /\ Len(stop_log) = 2
    /\ stop_log[1].kill
    /\ ~stop_log[1].err
    /\ relay = "exited"

\* C11: a failed kill of the relay on the shutdown path does not crash the
\* controller: it neither panics nor unwinds.
C11_KillFailureNotFatal ==
    ("handler" \in Range(steps) /\ \E i \in 1..Len(stop_log) : stop_log[i].err)
        => pc \notin {"unwind", "panicked"}

\* C12: while a requested relay has not been launched, main is not past the
\* relay start: no rotator, no rotation thread, no client, no request, and
\* the session has not ended normally.
C12_RelayFailureFatal ==
    (use_tor /\ relay = "absent") =>
        /\ pc \in {"load", "tor", "unwind", "panicked", "killed"}
        /\ ~rotator.some
        /\ rot_pc = "none"
        /\ ~client.some
        /\ requests = <<>>
        /\ ~handler

\* the launch failed and the session ended by the panic
C12_Witness ==
    /\ use_tor
    /\ relay = "absent"
    /\ steps = << "load" >>
    /\ pc = "panicked"

BlankFile(lines) == \A i \in 1..Len(lines) : trim(lines[i]) = <<>>

\* a file of blank lines only loads as the empty pool
BlankFilesLoadEmpty ==
    \A lines \in Files : BlankFile(lines) => load_proxies(lines) = <<>>

\* C13: with an empty pool (no file, or only blank lines) there is no
\* rotator, no rotation thread, no rotation, and the client has no proxy.
C13_DirectMode ==
    /\ BlankFilesLoadEmpty
    /\ ("load" \in Range(steps) /\ proxies = <<>>) =>
          /\ ~rotator.some
          /\ rot_pc = "none"
          /\ rotations = 0
          /\ ~client.has_proxy
          /\ \A i \in 1..Len(requests) : ~requests[i].has_proxy

\* a session given a proxy file without endpoints waits in direct mode
C13_Witness ==
    /\ proxy_arg = "file"
    /\ proxies = <<>>
    /\ client.some
    /\ pc = "wait_sleep"

\* C14: `running` is set as long as no handler is registered, is only ever
\* cleared, only with the handler registered, and once cleared it stays
\* cleared.
C14_FlagMonotone ==
    [][ /\ (~handler => running)
        /\ (~running => ~running')
        /\ (running' # running => (handler /\ ~running')) ]_vars

\* the flag is cleared while main and the rotation thread are still running
C14_Witness ==
    /\ ~running
    /\ pc = "wait_sleep"
    /\ rot_pc = "sleep"

\* C15: get_public_ip queries the services in order 1, 2, 3, stops at the
\* first one that answers with a readable body and returns that body
\* trimmed; when none does it has queried all three and returns nothing.
Answered(i) == responses[i].send_ok /\ responses[i].text_ok
IpRequests == SelectSeq(requests, LAMBDA r : r.url \in Services)

C15_ProbeOrder ==
    pc = "status" =>
        /\ \A i \in 1..Len(IpRequests) : IpRequests[i].url = i
        /\ IF \E i \in Services : Answered(i)
           THEN LET first == CHOOSE i \in Services :
                                Answered(i) /\ \A j \in 1..(i - 1) : ~Answered(j)
                IN  /\ Len(IpRequests) = first
                    /\ ip_info.some
                    /\ ip_info.ip = trim(responses[first].body)
                    /\ ip_info.ip # <<>> =>
                          /\ Head(ip_info.ip) \notin Whitespace
                          /\ ip_info.ip[Len(ip_info.ip)] \notin Whitespace
           ELSE /\ Len(IpRequests) = 3
                /\ ~ip_info.some

\* services 1 and 2 fail, service 3 answers " 7\n": the result is "7"
C15_Witness ==
    /\ pc = "status"
    /\ ~responses[1].send_ok
    /\ ~responses[2].send_ok
    /\ Answered(3)
    /\ Len(IpRequests) = 3
    /\ ip_info = [some |-> TRUE, ip |-> << "7" >>]

\* C16: the rotation thread enters an iteration only after reading
\* `running` set, takes the lock before should_rotate(), rotates only when
\* should_rotate() was true under that same lock hold, and so stamps a
\* rotation no earlier than one interval after the previous stamp (the
\* construction of the rotator for the first rotation).
C16_RotateOnlyWhenDue ==
    [][ /\ (rot_pc' = "lock" /\ rot_pc # "lock") => (rot_pc = "loop" /\ running)
        /\ (rot_pc' = "check" /\ rot_pc # "check") => (rot_pc = "lock" /\ lock' = "rot")
        /\ (rot_pc' = "rotate" /\ rot_pc # "rotate") =>
              (rot_pc = "check" /\ lock = "rot" /\ should_rotate(rotator, now))
        /\ rotations' # rotations =>
              (rot_pc = "rotate" /\ lock = "rot" /\ lock' = "rot")
        /\ (rot_pc = "stamp" /\ rot_pc' # "stamp") =>
              /\ lock = "rot"
              /\ rotator'.last_rotation - rotator.last_rotation >= rotator.interval
      ]_vars

\* two rotations with a non-zero interval
C16_Witness ==
    /\ rotator.interval > 0
    /\ rotations = 2
    /\ rot_pc = "unlock"

\* C17: a session that ends after the handler was registered ends in
\* Terminated (main returned), with the rotation thread returned and the
\* relay not running.
C17_ShutdownTerminates ==
    (Ended /\ "handler" \in Range(steps)) =>
        /\ pc = "done"
        /\ rot_pc \in {"none", "exited"}
        /\ relay # "running"

C19_Frame ==
    [][ rotator.some =>
            /\ rotator'.some
            /\ rotator'.proxies = rotator.proxies
            /\ rotator'.interval = rotator.interval
            /\ rotator' # rotator =>
                  (rot_pc \in {"rotate", "stamp"} /\ rot_pc' # rot_pc /\ pc' = pc)
            /\ (rot_pc = "rotate" /\ rot_pc' # rot_pc) =>
                  rotator'.last_rotation = rotator.last_rotation
            /\ (rot_pc = "stamp" /\ rot_pc' # rot_pc) =>
                  rotator'.current_index = rotator.current_index
      ]_vars

\* the identity check has read the rotator and the thread has rotated it
C19_Witness ==
    /\ "check" \in Range(steps)
    /\ rotator.interval > 0
    /\ rotations >= 1
    /\ rot_pc = "sleep"

\* C20: the rotation thread holds the lock exactly from lock() to the end of
\* the block, never while it sleeps; a holder of the lock can always take
\* its next step, so nobody waits for the lock forever.
C20_NoLockWhileSleeping ==
    /\ lock = "rot" <=> rot_pc \in {"check", "rotate", "stamp", "unlock"}
    /\ lock = "reader" <=> rd_pc \in {"index", "stamp", "unlock"}
    /\ rot_pc = "sleep" => lock # "rot"
    /\ lock = "rot" => ENABLED (RotCheck \/ RotIndex \/ RotStamp \/ RotUnlock)
    /\ lock = "reader" => ENABLED (ReaderIndex \/ ReaderStamp \/ ReaderUnlock)

\* an observer holds the lock while the rotation thread sleeps
C20_Witness ==
    /\ rot_pc = "sleep"
    /\ lock = "reader"
    /\ rd_pc = "index"
    /\ rotations >= 1

====
